---- MODULE Spec2Model ----
(***************************************************************************)
(* A model of the two site crawlers of MonkeysCloud/spideremails:          *)
(*   vc_email_scraper.py          hunt_emails / _one / crawl_site          *)
(*   vc_email_scraper_vcsheet.py  main / _crawl / crawl_domain             *)
(* Both run on one asyncio event loop: a task runs without interruption    *)
(* from one await to the next, so every action below is the code between   *)
(* two suspension points of one task.                                      *)
(***************************************************************************)
EXTENDS Integers, Sequences, FiniteSets, TLC

(***************************************************************************)
(* Bounds of the model.                                                    *)
(***************************************************************************)
\* seeds of a batch run (more than the concurrency limit)
NumSeeds == 3
\* anchors on one served page
MaxLinks == 2
\* address occurrences on one served page
MaxToks == 1
\* address occurrences on a page handed to extract_emails on its own
MaxCallToks == 3
\* rows of a CSV file of any content handed to bulk_mailer
MaxRows == 3
\* rows of a CSV file of distinct, clean addresses
MaxList == 5

(***************************************************************************)
(* Program constants, scaled down so that every limit is reached within    *)
(* the bounds (the code's values are 20, 50, 3 and 6, 40, 6).              *)
(***************************************************************************)
\* vc_email_scraper.py
CONCURRENCY == 2
MAX_PAGES_PER_SITE == 3
MAX_DEPTH == 2
RETRIES == 3
\* vc_email_scraper_vcsheet.py
PARALLEL_SITES == 2
MAX_PAGES == 3
VC_MAX_DEPTH == 2
\* bulk_mailer.py (MAX_PER_WINDOW is 100 in the code)
BATCH_SIZE == 1
SLEEP_BETWEEN == 10
MAX_PER_WINDOW == 2
WINDOW_PAUSE == 65 * 60

COMMON_ALIASES ==
    { "info", "contact", "hello", "hi", "team", "office", "admin", "support",
      "help", "inquiries", "enquiries", "mail", "mailbox", "mailroom",
      "ceo", "founder", "founders", "partners", "partner", "managingpartner",
      "invest", "investor", "investors", "venture", "capital", "fund", "funds",
      "fundraising", "lp", "dealflow", "sales", "bizdev", "business",
      "partnerships", "partnership", "outreach", "marketing", "press", "media",
      "pr", "comms", "careers", "jobs", "hr", "talent", "people", "recruiting",
      "ops", "operations", "services", "service", "webmaster", "postmaster" }

(***************************************************************************)
(* URLs.  A URL string  scheme://[www.][sub.]name[:port]/path[/][#frag]    *)
(* is the record of its parts; name n stands for the registrable domain    *)
(* "n.test", caps says that the host is written in upper case.             *)
(***************************************************************************)
Url(scheme, www, caps, sub, name, port, path, slash, frag) ==
    [scheme |-> scheme, www |-> www, caps |-> caps, sub |-> sub, name |-> name,
     port |-> port, path |-> path, slash |-> slash, frag |-> frag]

\* https://<n>.test
Root(n) == Url("https", FALSE, FALSE, "", n, FALSE, "", FALSE, FALSE)

\* a host string, lower case: [sub.]name[:port]; NoHost is ""
HostStr(sub, name, port) == [sub |-> sub, name |-> name, port |-> port]
NoHost == HostStr("", -1, FALSE)

\* href.split("#")[0], then urljoin: the resolved URL without its fragment
SplitFragment(u) == [u EXCEPT !.frag = FALSE]

\* str.rstrip("/"): acts only when the string ends with "/", that is when no
\* fragment follows the path
RStripSlash(u) == IF u.frag THEN u ELSE [u EXCEPT !.slash = FALSE]

\* str.startswith("http")
StartsWithHttp(u) == u.scheme \in {"http", "https"}

\* vc_email_scraper.domain: urlparse(u).netloc.lower().removeprefix("www.");
\* the netloc keeps the port
domain(u) == HostStr(u.sub, u.name, u.port)

\* vc_email_scraper_vcsheet.dom: "" unless http(s)://, else the hostname (no
\* port) lower-cased without a leading "www."
dom(u) == IF ~StartsWithHttp(u) THEN NoHost ELSE HostStr(u.sub, u.name, FALSE)

(***************************************************************************)
(* Addresses and page content.  An address local@[sub.]name is a record;   *)
(* caps says that it is written in upper case.  An occurrence of an        *)
(* address on a page (a token) is an href="mailto:..." link or text, with  *)
(* the way its "@" and the last dot of its host are written.  A page is    *)
(* the sequence of its anchors, the set of its tokens and bad, which says  *)
(* that one href cannot be parsed (urljoin raises ValueError).             *)
(***************************************************************************)
Addr(local, caps, sub, name) ==
    [local |-> local, caps |-> caps, sub |-> sub, name |-> name]

Tok(kind, at, dot, addr) == [kind |-> kind, at |-> at, dot |-> dot, addr |-> addr]

\* <a href="mailto:addr">, addr in plain text
MailtoTok(addr) == Tok("mailto", "@", ".", addr)
TextTok(addr) == Tok("text", "@", ".", addr)

Page(links, toks, bad) == [links |-> links, toks |-> toks, bad |-> bad]

\* fetch returns "" when the request fails
EmptyPage == Page(<<>>, {}, FALSE)

\* What a server answers to the request for a page: failed says that the
\* request raised (connection reset, time-out: a transient error); else it has
\* a status, a body (a page) that is or is not over SKIP_PAGE_BYTES (big), and
\* declares its content-length or not
Answer(failed, status, big, declared) ==
    [failed |-> failed, status |-> status, big |-> big, declared |-> declared]

Ok == Answer(FALSE, 200, FALSE, TRUE)
Unreachable == Answer(TRUE, 0, FALSE, FALSE)
NotFound == Answer(FALSE, 404, FALSE, TRUE)
BigDeclared == Answer(FALSE, 200, TRUE, TRUE)
BigUndeclared == Answer(FALSE, 200, TRUE, FALSE)

\* str.lower() of an address
Lower(a) == [a EXCEPT !.caps = FALSE]

\* str.endswith on the spellings of two names: "11.test" ends with "1.test"
\* (names are below 100)
NameEndsWith(a, b) == a >= 0 /\ b >= 0 /\ a % (IF b < 10 THEN 10 ELSE 100) = b

\* e.lower().endswith(host): the address, a string, ends with the host string.
\* Every string ends with "", none with a host that carries a port; the
\* comparison does not look for a "." or "@" before the host
EndsWithHost(a, host) ==
    IF host = NoHost THEN TRUE
    ELSE /\ ~host.port
         /\ IF host.sub = "" THEN NameEndsWith(a.name, host.name)
            ELSE a.name = host.name /\ a.sub = host.sub

\* vc_email_scraper_vcsheet.regdom("http://" + host of e)
regdom(a) == HostStr("", a.name, FALSE)

(***************************************************************************)
(* Address extraction.                                                     *)
(***************************************************************************)
\* set(MAILTO_RE.findall(html)): the addresses of the href="mailto:..." links
Mailtos(html) == { t.addr : t \in { x \in html.toks : x.kind = "mailto" } }

\* EMAIL_RE.findall(html): every literal local@host.tld of the text, those
\* inside a mailto link included
Plain(html) ==
    { t.addr : t \in { x \in html.toks : x.at = "@" /\ x.dot = "." } }

\* the spellings of "@" and of the dot that OBFUSCATED_RE matches: "(at)",
\* "{at}" and "(dot)" are not among them (a bracket may only surround one of
\* the listed spellings of "@", and "at" needs white space on both sides)
MatchedAts == {"@", "&#64;", "&commat;", " at ", "[at]"}
MatchedDots == {".", "dot", "[dot]", " dot "}

\* OBFUSCATED_RE.finditer(html) through _norm_obfus: the occurrences it
\* matches, in canonical local@host form
Obfuscated(html) ==
    { t.addr : t \in { x \in html.toks : x.at \in MatchedAts /\ x.dot \in MatchedDots } }

\* an extraction that does not stop at the mailto tier
extract_emails_all_tiers(html, host) ==
    Mailtos(html) \cup
    { e \in Plain(html) \cup Obfuscated(html) :
        Lower(e).local \in COMMON_ALIASES /\ EndsWithHost(Lower(e), host) }

\* vc_email_scraper.extract_emails(html, host)
extract_emails(html, host) ==
    LET mailtos == Mailtos(html)
        raw     == Plain(html) \cup Obfuscated(html)
    IN  IF mailtos # {}
        THEN mailtos
        ELSE { e \in raw : /\ Lower(e).local \in COMMON_ALIASES
                           /\ EndsWithHost(Lower(e), host) }

\* vc_email_scraper_vcsheet.extract_emails(text, host_regdom)
vc_extract_emails(text, host_regdom) ==
    { e \in Plain(text) : regdom(e) = host_regdom }

(***************************************************************************)
(* The frontier of one site.                                               *)
(***************************************************************************)
Task(url, depth) == [url |-> url, depth |-> depth]

\* a loop that forgets the page budget
CrawlSiteGoesOnNoBudget(qu, pg) == qu # <<>>

\* while q and pages < MAX_PAGES_PER_SITE
CrawlSiteGoesOn(qu, pg) == qu # <<>> /\ pg < MAX_PAGES_PER_SITE

\* while q and pages < MAX_PAGES
CrawlDomainGoesOn(qu, pg) == qu # <<>> /\ pg < MAX_PAGES

\* q.pop(): the last task instead of the first
PopIndexLast(qu) == Len(qu)

\* q.pop(0): the index of the task taken
PopIndex(qu) == 1

\* the queue without its i-th task
Without(qu, i) == SubSeq(qu, 1, i - 1) \o SubSeq(qu, i + 1, Len(qu))

\* a depth test that is off by one
CrawlSiteFollowsOffByOne(depth) == depth <= MAX_DEPTH

\* if depth < MAX_DEPTH
CrawlSiteFollows(depth) == depth < MAX_DEPTH

\* if depth >= MAX_DEPTH: continue
CrawlDomainFollows(depth) == ~(depth >= VC_MAX_DEPTH)

\* an offer that does not compare the domains
CrawlSiteOffersAnyDomain(nxt, host, sn) == StartsWithHttp(nxt) /\ nxt \notin sn

\* if nxt.startswith("http") and domain(nxt) == host and nxt not in seen
CrawlSiteOffers(nxt, host, sn) ==
    StartsWithHttp(nxt) /\ domain(nxt) = host /\ nxt \notin sn

\* if dom(l) == host
CrawlDomainOffers(l, host) == dom(l) = host

\* for a in BeautifulSoup(html, ...): the links in document order
RECURSIVE CrawlSiteLinks(_, _, _, _, _)
CrawlSiteLinks(links, host, depth, sn, qu) ==
    IF links = <<>>
    THEN [seen |-> sn, q |-> qu]
    ELSE LET nxt == SplitFragment(Head(links))
         IN  IF CrawlSiteOffers(nxt, host, sn)
             THEN CrawlSiteLinks(Tail(links), host, depth, sn \cup {nxt},
                                 Append(qu, Task(nxt, depth + 1)))
             ELSE CrawlSiteLinks(Tail(links), host, depth, sn, qu)

\* for l in links
RECURSIVE CrawlDomainLinks(_, _, _, _, _)
CrawlDomainLinks(links, host, depth, sn, qu) ==
    IF links = <<>>
    THEN [seen |-> sn, q |-> qu]
    ELSE LET l == RStripSlash(Head(links))
         IN  IF CrawlDomainOffers(Head(links), host) /\ l \notin sn
             THEN CrawlDomainLinks(Tail(links), host, depth, sn \cup {l},
                                   Append(qu, Task(l, depth + 1)))
             ELSE CrawlDomainLinks(Tail(links), host, depth, sn, qu)

(***************************************************************************)
(* The scheduler's helpers.                                                *)
(***************************************************************************)
\* a gate that admits every task
SemAdmitsAlways(value) == TRUE

\* asyncio.Semaphore: acquire goes through when the value is positive
SemAdmits(value) == value > 0

\* a release that gives the slot back to nobody
SemReleaseLost(value) == value

\* asyncio.Semaphore.release, on leaving "async with sem"
SemRelease(value) == value + 1

\* a time-out that cancels every task
WaitForCancelsAll(i, j) == TRUE

\* asyncio.wait_for(crawl_site(sess, url), timeout): when the time-out of task
\* i expires, the coroutine it was given is cancelled, and no other
WaitForCancels(i, j) == j = i

\* the orders in which a set can be iterated
Orders(S) ==
    { f \in [1..Cardinality(S) -> S] : \A i, j \in DOMAIN f : i # j => f[i] # f[j] }

\* [(url, e) for e in ems or [""]]: NoEmail is "", the empty email field
NoEmail == Addr("", FALSE, "", -1)
RowsOf(url, order) ==
    IF order = <<>>
    THEN << <<url, NoEmail>> >>
    ELSE [k \in 1..Len(order) |-> <<url, order[k]>>]

\* _one: the value the timeout handler gives ems
TimedOutEmails(accumulated) == {}

(***************************************************************************)
(* The served web.  anchors and toks of a site are what its pages may      *)
(* carry; a page carries at most MaxLinks anchors and MaxToks addresses;   *)
(* answers are the ways in which the site may answer a request.            *)
(***************************************************************************)
SeqsUpTo(S, n) == UNION { [1..k -> S] : k \in 0..n }
SubsetsUpTo(S, n) == { T \in SUBSET S : Cardinality(T) <= n }

\* a batch of NumSeeds small sites: seed n is https://n.test, its pages link to
\* https://n.test/p, and those of the first carry <a href="mailto:INFO@1.TEST">
BatchSites == [n \in 1..NumSeeds |-> Root(n)]
BatchWeb ==
    [n \in 1..NumSeeds |->
        [anchors |-> { [Root(n) EXCEPT !.path = "p"] },
         toks    |-> IF n = 1 THEN { MailtoTok(Addr("info", TRUE, "", n)) } ELSE {},
         answers |-> {Ok, Unreachable}]]

\* one site, https://www.1.test, with every shape of link
Seed1 == [Root(1) EXCEPT !.www = TRUE]
SiteAnchors ==
    { [Seed1 EXCEPT !.slash = TRUE],                       \* https://www.1.test/
      [Seed1 EXCEPT !.frag = TRUE],                        \* https://www.1.test#top
      [Root(1) EXCEPT !.path = "p"],                       \* https://1.test/p
      [Root(1) EXCEPT !.path = "p", !.slash = TRUE],       \* https://1.test/p/
      [Seed1 EXCEPT !.caps = TRUE, !.path = "p", !.frag = TRUE],
                                                           \* HTTPS://WWW.1.TEST/p#f
      [Root(0) EXCEPT !.path = "p"],                       \* https://0.test/p
      [Root(1) EXCEPT !.scheme = "ftp", !.path = "p"],     \* ftp://1.test/p
      [Root(1) EXCEPT !.port = TRUE, !.path = "p"] }       \* https://1.test:8080/p
SiteToks ==
    { MailtoTok(Addr("jane", TRUE, "", 0)),                \* mailto:JANE@0.TEST
      TextTok(Addr("info", FALSE, "", 1)) }                \* info@1.test
SiteAnswers == {Ok, Unreachable, NotFound, BigDeclared, BigUndeclared}
SiteSites == << Seed1 >>
SiteWeb ==
    << [anchors |-> SiteAnchors, toks |-> SiteToks, answers |-> SiteAnswers] >>

\* one site on a subdomain, https://blog.1.test, whose pages carry an address
\* of the registrable domain or one of the subdomain
SubSeed == [Root(1) EXCEPT !.sub = "blog"]
SubSites == << SubSeed >>
SubWeb ==
    << [anchors |-> { [SubSeed EXCEPT !.path = "p"] },
        toks    |-> { TextTok(Addr("info", FALSE, "", 1)),         \* info@1.test
                      TextTok(Addr("info", FALSE, "blog", 1)) },   \* info@blog.1.test
        answers |-> {Ok}] >>

Scenarios ==
    { [sites |-> BatchSites, web |-> BatchWeb],
      [sites |-> SiteSites, web |-> SiteWeb],
      [sites |-> SubSites, web |-> SubWeb] }

Variants == {"hunt_emails", "vcsheet"}

\* the inputs of a call of extract_emails on its own: pages of up to
\* MaxCallToks of these occurrences, crawled for 1.test or blog.1.test
CallToks ==
    { MailtoTok(Addr("jane", TRUE, "", 0)),         \* href="mailto:JANE@0.TEST"
      MailtoTok(Addr("info", FALSE, "", 1)),        \* href="mailto:info@1.test"
      TextTok(Addr("ceo", FALSE, "", 1)),           \* ceo@1.test
      TextTok(Addr("jane", FALSE, "", 1)),          \* jane@1.test
      TextTok(Addr("ceo", FALSE, "", 0)),           \* ceo@0.test
      Tok("text", "[at]", "[dot]", Addr("contact", FALSE, "", 1)),
                                                    \* contact [at] 1 [dot] test
      Tok("text", "(at)", "[dot]", Addr("hello", FALSE, "", 1)),
                                                    \* hello (at) 1 [dot] test
      TextTok(Addr("info", FALSE, "", 11)),         \* info@11.test
      TextTok(Addr("info", TRUE, "blog", 1)),       \* INFO@BLOG.1.TEST
      Tok("text", "(at)", "[dot]", Addr("info", FALSE, "", 1)),
                                                    \* info (at) 1 [dot] test
      Tok("text", "(at)", "[dot]", Addr("jane", FALSE, "", 1)) }
                                                    \* jane (at) 1 [dot] test
CallPages == { Page(<<>>, ts, FALSE) : ts \in SubsetsUpTo(CallToks, MaxCallToks) }
CallHosts == { HostStr("", 1, FALSE), HostStr("blog", 1, FALSE) }

(***************************************************************************)
(* State.                                                                  *)
(***************************************************************************)
None == [none |-> TRUE]

VARIABLES
    variant,    \* which program runs: hunt_emails or the vcsheet main
    sites,      \* the seed list handed to the scheduler
    web,        \* per seed, what the site's pages may carry
    mainpc,     \* the scheduler: "gather", then "done" or "aborted"
    sem,        \* the semaphore's value
    rows,       \* the (website, email) rows, a list
    results,    \* vcsheet: per task, << the email set _crawl returned >>, <<>> before
    pc,         \* per seed, where its task is
    q,          \* per seed, crawl_site / crawl_domain's local q
    seen,       \* ... seen
    emails,     \* ... emails
    pages,      \* ... pages
    cur,        \* ... (url, depth) of the page being fetched
    resp,       \* per seed, the answer to the request for the page in hand and
                \* the number of requests made for it; None while it is awaited
    ctx,        \* vcsheet: per seed, its browser context: "none", "open", "closed"
    fetched,    \* history: per seed, the tasks fetched, in order
    enq,        \* history: per seed, the tasks enqueued, in order
    arg_html,   \* extract_emails called on its own: the page,
    arg_host,   \* the host string,
    ret_emails, \* and << the set returned >>, <<>> before the call
    csv_in,     \* bulk_mailer: the rows of the CSV file (their email fields)
    mailpc,     \* where main is: "start", "post", "sleep", then "done", "exit"
                \* (sys.exit) or "crashed" (an exception left main)
    recipients, \* main's local recipients
    batch_no,   \* ... batch_no
    sent_total, \* ... sent_total
    failures,   \* ... failures["failed"]
    mail_log    \* history: the batches posted and the sleeps started, in order

vars == << variant, sites, web, mainpc, sem, rows, results, pc, q, seen, emails,
           pages, cur, resp, ctx, fetched, enq, arg_html, arg_host, ret_emails,
           csv_in, mailpc, recipients, batch_no, sent_total, failures, mail_log >>

\* the variables of a call of extract_emails on its own
call == << arg_html, arg_host, ret_emails >>

\* the variables of a run of bulk_mailer.main
mail == << csv_in, mailpc, recipients, batch_no, sent_total, failures, mail_log >>

\* the variables of a run of a scraper
crawl == << variant, sites, web, mainpc, sem, rows, results, pc, q, seen, emails,
            pages, cur, resp, ctx, fetched, enq >>

Seeds == 1..Len(sites)

\* a task that has ended: crawler returned, was timed out, failed with a caught
\* Playwright error, raised out of its task, or was cancelled with the run
Terminal == {"returned", "timedout", "failed", "raised", "cancelled"}

\* a run of the scheduler over the seed list and web of scenario sc
InitRun(sc) ==
    /\ sites = sc.sites /\ web = sc.web
    /\ mainpc = "gather"
    /\ sem = IF variant = "hunt_emails" THEN CONCURRENCY ELSE PARALLEL_SITES
    /\ rows = <<>>
    /\ results = [i \in Seeds |-> <<>>]
    /\ pc = [i \in Seeds |-> "pending"]
    /\ q = [i \in Seeds |-> <<>>]
    /\ seen = [i \in Seeds |-> {}]
    /\ emails = [i \in Seeds |-> {}]
    /\ pages = [i \in Seeds |-> 0]
    /\ cur = [i \in Seeds |-> None]
    /\ resp = [i \in Seeds |-> None]
    /\ ctx = [i \in Seeds |-> "none"]
    /\ fetched = [i \in Seeds |-> <<>>]
    /\ enq = [i \in Seeds |-> <<>>]

\* bulk_mailer.main has not been started
MailIdle(csv) ==
    /\ csv_in = csv
    /\ mailpc = "start"
    /\ recipients = <<>>
    /\ batch_no = 0
    /\ sent_total = 0
    /\ failures = <<>>
    /\ mail_log = <<>>

Init ==
    /\ variant \in Variants
    /\ \E sc \in Scenarios : InitRun(sc)
    /\ arg_html = EmptyPage /\ arg_host = NoHost /\ ret_emails = <<>>
    /\ MailIdle(<<>>)

\* the pages a fetch of site i may return: up to MaxLinks anchors and MaxToks
\* tokens, or tokens and an href that cannot be parsed
Pages(i) ==
    { Page(ls, ts, FALSE) : ls \in SeqsUpTo(web[i].anchors, MaxLinks),
                            ts \in SubsetsUpTo(web[i].toks, MaxToks) }
    \cup { Page(<<>>, ts, TRUE) : ts \in SubsetsUpTo(web[i].toks, MaxToks) }

\* the bodies that come with an answer other than Ok: at most one anchor and
\* one address
ErrorPages(i) ==
    { Page(ls, ts, FALSE) : ls \in SeqsUpTo(web[i].anchors, 1),
                            ts \in SubsetsUpTo(web[i].toks, 1) }

\* the bodies site i may send with answer ans
Bodies(i, ans) ==
    IF ans.failed THEN {EmptyPage}
    ELSE IF ans = Ok THEN Pages(i)
    ELSE ErrorPages(i)

\* the bodies told apart when a page is fetched: at the depth limit the
\* anchors of a page are never read, and one page stands for all that carry
\* the same addresses
BodiesRead(i, ans, follows) ==
    IF follows \/ ans.failed THEN Bodies(i, ans)
    ELSE { Page(<<>>, ts, FALSE) : ts \in SubsetsUpTo(web[i].toks, MaxToks) }

\* the answer to the one request made for the page in hand, and the
\* addresses of the text that was read from it
Got(ans, html) == [answer |-> ans, attempts |-> 1, toks |-> html.toks]

\* the locals of crawl_site / crawl_domain of seed i go with the coroutine
\* when it ends, and the histories of the crawl with them; emails keeps
\* what the crawl had accumulated
Dropped(i) ==
    /\ q' = [q EXCEPT ![i] = <<>>]
    /\ seen' = [seen EXCEPT ![i] = {}]
    /\ pages' = [pages EXCEPT ![i] = 0]
    /\ cur' = [cur EXCEPT ![i] = None]
    /\ fetched' = [fetched EXCEPT ![i] = <<>>]
    /\ enq' = [enq EXCEPT ![i] = <<>>]

Ended(i) == Dropped(i) /\ resp' = [resp EXCEPT ![i] = None]

(***************************************************************************)
(* vc_email_scraper.py: hunt_emails, _one, crawl_site.                     *)
(***************************************************************************)
\* _one: "async with sem" admits the task; wait_for starts crawl_site, which
\* runs to its while loop
OneStart(i) ==
    /\ variant = "hunt_emails" /\ mainpc = "gather"
    /\ pc[i] = "pending"
    /\ SemAdmits(sem)
    /\ sem' = sem - 1
    /\ seen' = [seen EXCEPT ![i] = {sites[i]}]
    /\ q' = [q EXCEPT ![i] = << Task(sites[i], 0) >>]
    /\ enq' = [enq EXCEPT ![i] = << Task(sites[i], 0) >>]
    /\ emails' = [emails EXCEPT ![i] = {}]
    /\ pages' = [pages EXCEPT ![i] = 0]
    /\ pc' = [pc EXCEPT ![i] = "loop"]
    /\ UNCHANGED << call, mail, variant, sites, web, mainpc, rows, results, cur, resp, ctx,
                    fetched >>

\* crawl_site: the loop goes on; url, depth = q.pop(0); pages += 1; fetch starts
CrawlSitePop(i) ==
    /\ variant = "hunt_emails"
    /\ pc[i] = "loop"
    /\ CrawlSiteGoesOn(q[i], pages[i])
    /\ LET k == PopIndex(q[i])
       IN  /\ cur' = [cur EXCEPT ![i] = q[i][k]]
           /\ q' = [q EXCEPT ![i] = Without(q[i], k)]
           /\ fetched' = [fetched EXCEPT ![i] = Append(@, q[i][k])]
    /\ pages' = [pages EXCEPT ![i] = @ + 1]
    /\ resp' = [resp EXCEPT ![i] = None]
    /\ pc' = [pc EXCEPT ![i] = "fetch"]
    /\ UNCHANGED << call, mail, variant, sites, web, mainpc, sem, rows, results, seen, emails,
                    ctx, enq >>

\* a fetch that lets the request's exception through
FetchCatchesNothing(ans) == FALSE

\* fetch: "except Exception" catches whatever the request raises
FetchCatches(ans) == TRUE

\* fetch: one sess.get; "" when the request raised, else r.text(), the body,
\* whatever the status and the size of the answer
FetchResult(ans, body) == IF ans.failed THEN EmptyPage ELSE body

\* crawl_site: fetch returns html ("" when the request failed); the emails are
\* extracted and, below MAX_DEPTH, the links offered.  An href that cannot be
\* parsed makes urljoin raise ValueError: it leaves crawl_site and _one (which
\* catches timeouts and cancellation only), "async with" releases the slot, and
\* gather(return_exceptions=True) keeps the exception as the task's result
\* (resp keeps the answer at which the task raised)
CrawlSiteFetched(i) ==
    /\ variant = "hunt_emails"
    /\ pc[i] = "fetch"
    /\ \E ans \in web[i].answers :
       \E body \in BodiesRead(i, ans, CrawlSiteFollows(cur[i].depth)) :
        LET html == FetchResult(ans, body)
            host == domain(sites[i])
            nxt  == CrawlSiteLinks(html.links, host, cur[i].depth, seen[i], q[i])
        IN  /\ emails' = [emails EXCEPT ![i] = @ \cup extract_emails(html, host)]
            /\ IF \/ ans.failed /\ ~FetchCatches(ans)
                  \/ CrawlSiteFollows(cur[i].depth) /\ html.bad
               THEN /\ pc' = [pc EXCEPT ![i] = "raised"]
                    /\ sem' = SemRelease(sem)
                    /\ Dropped(i)
                    /\ resp' = [resp EXCEPT ![i] = Got(ans, html)]
               ELSE /\ pc' = [pc EXCEPT ![i] = "loop"]
                    /\ sem' = sem
                    /\ IF CrawlSiteFollows(cur[i].depth)
                       THEN /\ q' = [q EXCEPT ![i] = nxt.q]
                            /\ seen' = [seen EXCEPT ![i] = nxt.seen]
                            /\ enq' = [enq EXCEPT ![i] =
                                        @ \o SubSeq(nxt.q, Len(q[i]) + 1, Len(nxt.q))]
                       ELSE UNCHANGED << q, seen, enq >>
                    /\ resp' = [resp EXCEPT ![i] = Got(ans, html)]
                    /\ UNCHANGED << pages, cur, fetched >>
    /\ UNCHANGED << call, mail, variant, sites, web, mainpc, rows, results, ctx >>

\* crawl_site: the loop ends and emails is returned; _one leaves "async with
\* sem" and extends rows
CrawlSiteReturn(i) ==
    /\ variant = "hunt_emails"
    /\ pc[i] = "loop"
    /\ ~CrawlSiteGoesOn(q[i], pages[i])
    /\ sem' = SemRelease(sem)
    /\ \E order \in Orders(emails[i]) : rows' = rows \o RowsOf(sites[i], order)
    /\ pc' = [pc EXCEPT ![i] = "returned"]
    /\ Ended(i)
    /\ UNCHANGED << call, mail, variant, sites, web, mainpc, results, emails, ctx >>

\* _one: SITE_TIMEOUT expires while crawl_site awaits fetch; wait_for cancels it
\* and raises TimeoutError, the slot is released, and the handler sets
\* ems = set()
OneTimeout(i) ==
    /\ variant = "hunt_emails"
    /\ pc[i] = "fetch"
    /\ sem' = SemRelease(sem)
    /\ \E order \in Orders(TimedOutEmails(emails[i])) :
            rows' = rows \o RowsOf(sites[i], order)
    /\ pc' = [j \in Seeds |-> IF WaitForCancels(i, j) THEN "timedout" ELSE pc[j]]
    /\ Ended(i)
    /\ UNCHANGED << call, mail, variant, sites, web, mainpc, results, emails, ctx >>

\* hunt_emails: gather(..., return_exceptions=True) completes when every task
\* has ended, however it ended; rows is returned
HuntGather ==
    /\ variant = "hunt_emails" /\ mainpc = "gather"
    /\ \A i \in Seeds : pc[i] \in Terminal
    /\ mainpc' = "done"
    /\ UNCHANGED << call, mail, variant, sites, web, sem, rows, results, pc, q, seen, emails,
                    pages, cur, resp, ctx, fetched, enq >>

HuntNext ==
    \/ \E i \in Seeds : OneStart(i)
    \/ \E i \in Seeds : CrawlSitePop(i)
    \/ \E i \in Seeds : CrawlSiteFetched(i)
    \/ \E i \in Seeds : CrawlSiteReturn(i)
    \/ \E i \in Seeds : OneTimeout(i)
    \/ HuntGather

(***************************************************************************)
(* vc_email_scraper_vcsheet.py: main, _crawl, crawl_domain.                *)
(***************************************************************************)
\* the states in which a task holds a slot of the semaphore
Holding == {"open", "loop", "goto", "fetch", "close"}

\* _crawl: "async with sem" admits the task; wait_for starts crawl_domain,
\* which returns set() for a seed without host and else awaits new_context
CrawlStart(i) ==
    /\ variant = "vcsheet" /\ mainpc = "gather"
    /\ pc[i] = "pending"
    /\ SemAdmits(sem)
    /\ IF dom(sites[i]) = NoHost
       THEN /\ pc' = [pc EXCEPT ![i] = "returned"]
            /\ results' = [results EXCEPT ![i] = << {} >>]
            /\ sem' = SemRelease(sem - 1)
       ELSE /\ pc' = [pc EXCEPT ![i] = "open"]
            /\ sem' = sem - 1
            /\ UNCHANGED results
    /\ UNCHANGED << call, mail, variant, sites, web, mainpc, rows, q, seen, emails, pages,
                    cur, resp, ctx, fetched, enq >>

\* crawl_domain: browser.new_context() and ctx.new_page() return, and q, seen,
\* pages, emails are set up; or one of them raises a Playwright error, which
\* _crawl catches: the slot is released and (site, set()) returned
CrawlDomainOpened(i) ==
    /\ variant = "vcsheet" /\ mainpc = "gather"
    /\ pc[i] = "open"
    /\ \E r \in {"ok", "context_error", "page_error"} :
        /\ ctx' = [ctx EXCEPT ![i] = IF r = "context_error" THEN "none" ELSE "open"]
        /\ IF r = "ok"
           THEN LET start == RStripSlash(sites[i])
                IN  /\ q' = [q EXCEPT ![i] = << Task(start, 0) >>]
                    /\ enq' = [enq EXCEPT ![i] = << Task(start, 0) >>]
                    /\ seen' = [seen EXCEPT ![i] = {start}]
                    /\ pages' = [pages EXCEPT ![i] = 0]
                    /\ emails' = [emails EXCEPT ![i] = {}]
                    /\ pc' = [pc EXCEPT ![i] = "loop"]
                    /\ UNCHANGED << sem, results >>
           ELSE /\ pc' = [pc EXCEPT ![i] = "failed"]
                /\ results' = [results EXCEPT ![i] = << {} >>]
                /\ sem' = SemRelease(sem)
                /\ UNCHANGED << q, enq, seen, pages, emails >>
    /\ UNCHANGED << call, mail, variant, sites, web, mainpc, rows, cur, resp, fetched >>

\* crawl_domain: the loop goes on; url, depth = q.pop(0); pages += 1; safe_goto
\* starts
CrawlDomainPop(i) ==
    /\ variant = "vcsheet" /\ mainpc = "gather"
    /\ pc[i] = "loop"
    /\ CrawlDomainGoesOn(q[i], pages[i])
    /\ LET k == PopIndex(q[i])
       IN  /\ cur' = [cur EXCEPT ![i] = q[i][k]]
           /\ q' = [q EXCEPT ![i] = Without(q[i], k)]
           /\ fetched' = [fetched EXCEPT ![i] = Append(@, q[i][k])]
    /\ pages' = [pages EXCEPT ![i] = @ + 1]
    /\ resp' = [resp EXCEPT ![i] = None]
    /\ pc' = [pc EXCEPT ![i] = "goto"]
    /\ UNCHANGED << call, mail, variant, sites, web, mainpc, sem, rows, results, seen, emails,
                    ctx, enq >>

\* what one pass of crawl_domain's loop body may meet
VisitEvents == {"ok", "goto_failed", "too_big", "content_error", "links_error"}

\* what a pass may meet after answer ans.  safe_goto returns False when
\* page.goto raised and True whatever the status.  The size test reads
\* page.response().headers: it can skip only a body that declares a
\* content-length over SKIP_PAGE_BYTES, and whatever the lookup raises is
\* passed over ("except Exception: pass"), the page then being read
EventsAt(ans) ==
    IF ans.failed THEN {"goto_failed"}
    ELSE { ev \in VisitEvents :
            /\ ev # "goto_failed"
            /\ ev = "too_big" => ans.big /\ ans.declared }

\* the pages the browser may hold at an event: none that is read when the
\* pass ends before page.content() returns
PagesAt(i, ans, ev, follows) ==
    IF ev \in {"goto_failed", "too_big", "content_error"} THEN {EmptyPage}
    ELSE BodiesRead(i, ans, follows /\ ev # "links_error")

\* crawl_domain: one pass of the loop body after the pop.  safe_goto fails, the
\* content-length is over SKIP_PAGE_BYTES, or page.content() raises: continue.
\* Else the emails are extracted (against host = dom(start_url)); at MAX_DEPTH:
\* continue; the link query raises: continue; else the links are offered
CrawlDomainVisited(i) ==
    /\ variant = "vcsheet" /\ mainpc = "gather"
    /\ pc[i] = "goto"
    /\ \E ans \in web[i].answers : \E ev \in EventsAt(ans) :
       \E html \in PagesAt(i, ans, ev, CrawlDomainFollows(cur[i].depth)) :
        LET host == dom(sites[i])
            nxt  == CrawlDomainLinks(html.links, host, cur[i].depth, seen[i], q[i])
        IN  /\ IF ev \in {"goto_failed", "too_big", "content_error"}
               THEN UNCHANGED << emails, q, seen, enq >>
               ELSE /\ emails' = [emails EXCEPT ![i] =
                                    @ \cup vc_extract_emails(html, host)]
                    /\ IF CrawlDomainFollows(cur[i].depth) /\ ev # "links_error"
                       THEN /\ q' = [q EXCEPT ![i] = nxt.q]
                            /\ seen' = [seen EXCEPT ![i] = nxt.seen]
                            /\ enq' = [enq EXCEPT ![i] =
                                        @ \o SubSeq(nxt.q, Len(q[i]) + 1, Len(nxt.q))]
                       ELSE UNCHANGED << q, seen, enq >>
            /\ resp' = [resp EXCEPT ![i] = Got(ans, html)]
    /\ pc' = [pc EXCEPT ![i] = "loop"]
    /\ UNCHANGED << call, mail, variant, sites, web, mainpc, sem, rows, results, pages, cur,
                    ctx, fetched >>

\* crawl_domain: the loop ends; ctx.close() starts
CrawlDomainLeave(i) ==
    /\ variant = "vcsheet" /\ mainpc = "gather"
    /\ pc[i] = "loop"
    /\ ~CrawlDomainGoesOn(q[i], pages[i])
    /\ pc' = [pc EXCEPT ![i] = "close"]
    /\ UNCHANGED << call, mail, variant, sites, web, mainpc, sem, rows, results, q, seen,
                    emails, pages, cur, resp, ctx, fetched, enq >>

\* crawl_domain: ctx.close() returns and emails is returned, _crawl returns
\* (site, ems); or ctx.close() raises a Playwright error and _crawl returns
\* (site, set())
CrawlDomainClosed(i) ==
    /\ variant = "vcsheet" /\ mainpc = "gather"
    /\ pc[i] = "close"
    /\ \E r \in {"ok", "close_error"} :
        IF r = "ok"
        THEN /\ ctx' = [ctx EXCEPT ![i] = "closed"]
             /\ results' = [results EXCEPT ![i] = << emails[i] >>]
             /\ pc' = [pc EXCEPT ![i] = "returned"]
        ELSE /\ ctx' = ctx
             /\ results' = [results EXCEPT ![i] = << {} >>]
             /\ pc' = [pc EXCEPT ![i] = "failed"]
    /\ sem' = SemRelease(sem)
    /\ Ended(i)
    /\ UNCHANGED << call, mail, variant, sites, web, mainpc, rows, emails >>

\* _crawl: SITE_TIMEOUT expires at one of crawl_domain's awaits; wait_for
\* cancels it and raises TimeoutError, the slot is released and the handler
\* returns (site, set())
CrawlTimeout(i) ==
    /\ variant = "vcsheet" /\ mainpc = "gather"
    /\ pc[i] \in {"open", "goto", "close"}
    /\ sem' = SemRelease(sem)
    /\ results' = [results EXCEPT ![i] = << TimedOutEmails(emails[i]) >>]
    /\ pc' = [j \in Seeds |-> IF WaitForCancels(i, j) THEN "timedout" ELSE pc[j]]
    /\ Ended(i)
    /\ UNCHANGED << call, mail, variant, sites, web, mainpc, rows, emails, ctx >>

\* _crawl: an exception that is neither TimeoutError nor a Playwright error
\* leaves crawl_domain at one of its awaits.  _crawl does not catch it and
\* gather (without return_exceptions) raises it in main at once: main ends
\* without building rows, and the run's shutdown cancels the tasks still alive
CrawlRaise(i) ==
    /\ variant = "vcsheet" /\ mainpc = "gather"
    /\ pc[i] \in {"open", "goto", "close"}
    /\ pc' = [j \in Seeds |-> IF j = i THEN "raised"
                              ELSE IF pc[j] \in Terminal THEN pc[j]
                              ELSE "cancelled"]
    /\ sem' = sem + Cardinality({ j \in Seeds : pc[j] \in Holding })
    /\ mainpc' = "aborted"
    /\ q' = [j \in Seeds |-> <<>>]
    /\ seen' = [j \in Seeds |-> {}]
    /\ pages' = [j \in Seeds |-> 0]
    /\ cur' = [j \in Seeds |-> None]
    /\ resp' = [j \in Seeds |-> None]
    /\ fetched' = [j \in Seeds |-> <<>>]
    /\ enq' = [j \in Seeds |-> <<>>]
    /\ UNCHANGED << call, mail, variant, sites, web, rows, results, emails, ctx >>

\* rows.extend((site, e) for e in (emails or {""})), for the seeds from..n in
\* order; order[i] is the order in which seed i's set is iterated
RECURSIVE MainRows(_, _, _)
MainRows(from, n, order) ==
    IF from > n THEN <<>>
    ELSE RowsOf(sites[from], order[from]) \o MainRows(from + 1, n, order)

\* main: gather returns every task's (site, emails) and the rows are built in
\* seed order; browser.close() closes every context
MainGather ==
    /\ variant = "vcsheet" /\ mainpc = "gather"
    /\ \A i \in Seeds : pc[i] \in Terminal
    /\ \A i \in Seeds : results[i] # <<>>
    /\ \E order \in [Seeds -> UNION { Orders(results[i][1]) : i \in Seeds }] :
        /\ \A i \in Seeds : order[i] \in Orders(results[i][1])
        /\ rows' = MainRows(1, Len(sites), order)
    /\ ctx' = [i \in Seeds |-> IF ctx[i] = "open" THEN "closed" ELSE ctx[i]]
    /\ mainpc' = "done"
    /\ UNCHANGED << call, mail, variant, sites, web, sem, results, pc, q, seen, emails, pages,
                    cur, resp, fetched, enq >>

VcNext ==
    \/ \E i \in Seeds : CrawlStart(i)
    \/ \E i \in Seeds : CrawlDomainOpened(i)
    \/ \E i \in Seeds : CrawlDomainPop(i)
    \/ \E i \in Seeds : CrawlDomainVisited(i)
    \/ \E i \in Seeds : CrawlDomainLeave(i)
    \/ \E i \in Seeds : CrawlDomainClosed(i)
    \/ \E i \in Seeds : CrawlTimeout(i)
    \/ \E i \in Seeds : CrawlRaise(i)
    \/ MainGather

(***************************************************************************)
(* extract_emails called on its own.                                       *)
(***************************************************************************)
\* vc_email_scraper.extract_emails(arg_html, arg_host) is called
CallExtractEmails ==
    /\ variant = "hunt_emails"
    /\ ret_emails = <<>>
    /\ ret_emails' = << extract_emails(arg_html, arg_host) >>
    /\ UNCHANGED << arg_html, arg_host, variant, sites, web, mainpc, sem, rows,
                    results, pc, q, seen, emails, pages, cur, resp, ctx, fetched, enq,
                    mail >>

\* vc_email_scraper_vcsheet.extract_emails(arg_html, arg_host) is called
CallVcExtractEmails ==
    /\ variant = "vcsheet"
    /\ ret_emails = <<>>
    /\ ret_emails' = << vc_extract_emails(arg_html, arg_host) >>
    /\ UNCHANGED << arg_html, arg_host, variant, sites, web, mainpc, sem, rows,
                    results, pc, q, seen, emails, pages, cur, resp, ctx, fetched, enq,
                    mail >>

CallInit ==
    /\ variant \in Variants
    /\ InitRun([sites |-> <<>>, web |-> <<>>])
    /\ arg_html \in CallPages /\ arg_host \in CallHosts /\ ret_emails = <<>>
    /\ MailIdle(<<>>)

CallNext == CallExtractEmails \/ CallVcExtractEmails

CallSpec == CallInit /\ [][CallNext]_vars

Next == HuntNext \/ VcNext

Spec == Init /\ [][Next]_vars

(***************************************************************************)
(* bulk_mailer.py: load_addresses, chunk, send_batch, main.                *)
(***************************************************************************)
\* The email field of a CSV row, a string: local@name.test when at holds,
\* else the bare text local ("" when local is ""); caps says that it is
\* written in upper case, pad that white space surrounds it
EmailCell(local, at, name, caps, pad) ==
    [local |-> local, at |-> at, name |-> name, caps |-> caps, pad |-> pad]

\* str.strip()
Strip(c) == [c EXCEPT !.pad = FALSE]

\* a string is true when it is not empty
Truthy(c) == c.local # "" \/ c.at \/ c.pad

\* '"@" in em'
HasAt(c) == c.at

\* a comparison key that leaves the field as it is written
CellKeyRaw(c) == c

\* em = row.get("email", "").strip().lower()
CellKey(c) == Lower(Strip(c))

\* A row as csv.DictReader hands it over: << c >> when its email field is c,
\* <<>> when the row is too short to have one (the value is then None).
\* load_addresses: the loop over the rows, with its locals seen and keep;
\* None.strip() raises AttributeError
Loaded(raised, keep) == [raised |-> raised, keep |-> keep]

RECURSIVE LoadFrom(_, _, _)
LoadFrom(rws, sn, keep) ==
    IF rws = <<>> THEN Loaded(FALSE, keep)
    ELSE IF Head(rws) = <<>> THEN Loaded(TRUE, <<>>)
    ELSE LET em == CellKey(Head(rws)[1])
         IN  IF Truthy(em) /\ HasAt(em) /\ em \notin sn
             THEN LoadFrom(Tail(rws), sn \cup {em}, Append(keep, em))
             ELSE LoadFrom(Tail(rws), sn, keep)

load_addresses(csv) == LoadFrom(csv, {}, <<>>)

\* chunk(lst, n): the slices lst[i : i + n] for i = 0, n, 2n, ... below len(lst)
chunk(lst, n) ==
    [k \in 1..((Len(lst) + n - 1) \div n) |->
        SubSeq(lst, (k - 1) * n + 1, IF k * n < Len(lst) THEN k * n ELSE Len(lst))]

\* what session.post does: it raises, or a response with a status comes back
Response(raised, status) == [raised |-> raised, status |-> status]
PostOutcomes ==
    { Response(FALSE, 200), Response(FALSE, 429), Response(TRUE, 0) }

\* send_batch's return value (ok, bad) after a response
send_batch(batch, response) ==
    IF response.status = 200
    THEN [ok |-> Len(batch), bad |-> <<>>]
    ELSE [ok |-> 0, bad |-> batch]

\* more_left = batch_no * BATCH_SIZE < len(recipients)
MoreLeft(n, rcpts) == n * BATCH_SIZE < Len(rcpts)

\* a wait that is always the short one
NapAlwaysShort(n) == SLEEP_BETWEEN

\* the seconds main sleeps after batch n when more is left
Nap(n) == IF n % MAX_PER_WINDOW = 0 THEN WINDOW_PAUSE ELSE SLEEP_BETWEEN

\* the events of the history
Posted(batch) == [kind |-> "post", to |-> batch, secs |-> 0]
Slept(secs) == [kind |-> "sleep", to |-> <<>>, secs |-> secs]

\* CSV files: any rows of these fields, or a list of distinct clean addresses
MailCells ==
    { EmailCell("info", TRUE, 1, FALSE, FALSE),      \* info@1.test
      EmailCell("info", TRUE, 1, TRUE, TRUE),        \* " INFO@1.TEST "
      EmailCell("info", TRUE, 2, FALSE, FALSE),      \* info@2.test
      EmailCell("", FALSE, -1, FALSE, FALSE),        \* ""
      EmailCell("", FALSE, -1, FALSE, TRUE),         \* "  "
      EmailCell("nobody", FALSE, -1, FALSE, FALSE) } \* nobody
MailRows == { << c >> : c \in MailCells } \cup { <<>> }
CleanList(n) == [k \in 1..n |-> << EmailCell("info", TRUE, k, FALSE, FALSE) >>]
CsvFiles ==
    SeqsUpTo(MailRows, MaxRows) \cup { CleanList(n) : n \in 0..MaxList }

\* main up to the loop: without the two environment variables sys.exit; else
\* the addresses are loaded (an exception of load_addresses leaves main) and
\* the first batch, if there is one, is taken
MailLoad ==
    /\ variant = "bulk_mailer"
    /\ mailpc = "start"
    /\ \E env \in BOOLEAN :
        IF ~env
        THEN /\ mailpc' = "exit"
             /\ UNCHANGED << recipients, batch_no, sent_total, failures >>
        ELSE LET loaded == load_addresses(csv_in)
             IN  IF loaded.raised
                 THEN /\ mailpc' = "crashed"
                      /\ UNCHANGED << recipients, batch_no, sent_total, failures >>
                 ELSE /\ recipients' = loaded.keep
                      /\ sent_total' = 0
                      /\ failures' = <<>>
                      /\ IF chunk(loaded.keep, BATCH_SIZE) = <<>>
                         THEN mailpc' = "done" /\ batch_no' = 0
                         ELSE mailpc' = "post" /\ batch_no' = 1
    /\ UNCHANGED << call, crawl, csv_in, mail_log >>

\* main's loop body: send_batch posts the batch; an exception of session.post
\* leaves send_batch (try/finally) and main; else the totals are updated and
\* main ends after the last batch or starts the sleep before the next
MailPost ==
    /\ variant = "bulk_mailer"
    /\ mailpc = "post"
    /\ \E response \in PostOutcomes :
        LET batch == chunk(recipients, BATCH_SIZE)[batch_no]
            res   == send_batch(batch, response)
        IN  IF response.raised
            THEN /\ mailpc' = "crashed"
                 /\ mail_log' = Append(mail_log, Posted(batch))
                 /\ UNCHANGED << sent_total, failures >>
            ELSE /\ sent_total' = sent_total + res.ok
                 /\ failures' = failures \o res.bad
                 /\ IF ~MoreLeft(batch_no, recipients)
                    THEN /\ mailpc' = "done"
                         /\ mail_log' = Append(mail_log, Posted(batch))
                    ELSE /\ mailpc' = "sleep"
                         /\ mail_log' = mail_log \o
                                << Posted(batch), Slept(Nap(batch_no)) >>
    /\ UNCHANGED << call, crawl, csv_in, recipients, batch_no >>

\* time.sleep returns: the loop takes the next batch
MailWake ==
    /\ variant = "bulk_mailer"
    /\ mailpc = "sleep"
    /\ batch_no' = batch_no + 1
    /\ mailpc' = "post"
    /\ UNCHANGED << call, crawl, csv_in, recipients, sent_total, failures, mail_log >>

MailInit ==
    /\ variant = "bulk_mailer"
    /\ InitRun([sites |-> <<>>, web |-> <<>>])
    /\ arg_html = EmptyPage /\ arg_host = NoHost /\ ret_emails = <<>>
    /\ \E csv \in CsvFiles : MailIdle(csv)

MailNext == MailLoad \/ MailPost \/ MailWake

MailSpec == MailInit /\ [][MailNext]_vars

(***************************************************************************)
(* What the properties below speak of.                                     *)
(***************************************************************************)
IsHunt == variant = "hunt_emails"

\* the concurrency limit, the page budget and the depth limit of the variant
ConcurrencyLimit == IF IsHunt THEN CONCURRENCY ELSE PARALLEL_SITES
MaxPages == IF IsHunt THEN MAX_PAGES_PER_SITE ELSE MAX_PAGES
MaxDepth == IF IsHunt THEN MAX_DEPTH ELSE VC_MAX_DEPTH

\* the site crawlers admitted past the semaphore and not yet ended
Executing == { i \in Seeds : pc[i] \in Holding }

\* the emails the batch holds for seed i: those of its rows (hunt_emails), the
\* set its task returned to gather (vcsheet)
RowEmails(i) ==
    { rows[k][2] : k \in { j \in DOMAIN rows : rows[j][1] = sites[i] } } \ {NoEmail}
BatchEmails(i) ==
    IF IsHunt THEN RowEmails(i)
    ELSE IF results[i] = <<>> THEN {} ELSE results[i][1]

(***************************************************************************)
(* C1: at every moment of a batch run, the number of site crawlers that    *)
(* are executing (admitted past the semaphore, not yet finished, timed out *)
(* or failed) is at most the concurrency limit.                            *)
(***************************************************************************)
C1_BoundedConcurrency == Cardinality(Executing) <= ConcurrencyLimit

\* the limit is reached while another seed waits for a slot
C1_Witness ==
    /\ Cardinality(Executing) = ConcurrencyLimit
    /\ \E i \in Seeds : pc[i] = "pending"

(***************************************************************************)
(* C2: when the per-site timeout expires for a site, the batch result for  *)
(* that site is exactly the set of emails extracted from the pages its     *)
(* crawler had processed.                                                  *)
(***************************************************************************)
C2_TimeoutKeepsPartial ==
    \A i \in Seeds : pc[i] = "timedout" => BatchEmails(i) = emails[i]

(***************************************************************************)
(* C3: when a site's crawler raises an exception, the batch is not         *)
(* aborted: no other crawler is cut short, and once the batch is over the  *)
(* emails of every crawler that returned are in the batch output, complete *)
(* and correct.                                                            *)
(***************************************************************************)
C3_FailureIsolated ==
    \A i, j \in Seeds :
        (i # j /\ pc[i] = "raised") =>
            /\ pc[j] # "cancelled"
            /\ (mainpc # "gather" /\ pc[j] = "returned") => RowEmails(j) = emails[j]

\* the same, of hunt_emails alone (it holds there)
C3_HuntIsolated == IsHunt => C3_FailureIsolated

(***************************************************************************)
(* hunt_emails under fair scheduling: the event loop runs every task that  *)
(* can run, and a fetch that does not end is ended by wait_for when        *)
(* SITE_TIMEOUT expires.  Nothing is assumed of the sites' answers.        *)
(***************************************************************************)
HuntInit == Init /\ IsHunt

\* the steps the event loop and its timers take on their own
HuntRuns ==
    \/ \E i \in Seeds : OneStart(i) \/ CrawlSitePop(i) \/ CrawlSiteReturn(i)
    \/ \E i \in Seeds : OneTimeout(i)
    \/ HuntGather

HuntFairSpec == HuntInit /\ [][HuntNext]_vars /\ WF_vars(HuntRuns)

(***************************************************************************)
(* C4: every batch run of hunt_emails terminates: every seed eventually    *)
(* reaches a terminal site-crawler state and the batch then returns its    *)
(* rows, also when sites do not answer or every site fails.                *)
(***************************************************************************)
C4_BatchTerminates ==
    <>(mainpc = "done" /\ \A i \in Seeds : pc[i] \in Terminal)

\* a batch of NumSeeds seeds is over and every site timed out or raised
C4_Witness ==
    /\ mainpc = "done" /\ Len(sites) = NumSeeds
    /\ \A i \in Seeds : pc[i] \in {"timedout", "raised"}
    /\ \E i \in Seeds : pc[i] = "raised"

(***************************************************************************)
(* C5: a site crawler performs at most MaxPages page fetches, failed ones  *)
(* counted, whatever links are discovered.                                 *)
(***************************************************************************)
C5_PageBudget == \A i \in Seeds : Len(fetched[i]) <= MaxPages

\* the budget is spent, all fetches made, and the queue still holds tasks
C5_Witness ==
    \E i \in Seeds :
        pc[i] = "loop" /\ Len(fetched[i]) = MaxPages /\ q[i] # <<>>

(***************************************************************************)
(* C6: every task in the frontier queue has depth <= MaxDepth; the seed    *)
(* has depth 0 and every task enqueued later has the depth of the page on  *)
(* which its link was found, plus 1.                                       *)
(***************************************************************************)
DepthBounded ==
    \A i \in Seeds :
        /\ \A k \in DOMAIN q[i] : q[i][k].depth <= MaxDepth
        /\ enq[i] # <<>> => enq[i][1].depth = 0

\* a step that enqueues tasks gives them the depth of the page in hand, plus 1
DepthStep ==
    \A i \in Seeds :
        enq[i] # <<>> =>
            \A k \in (Len(enq[i]) + 1)..Len(enq'[i]) :
                enq'[i][k].depth = cur[i].depth + 1

C6_DepthLimit == []DepthBounded /\ [][DepthStep]_vars

\* a task of depth MaxDepth waits in the queue
C6_Witness ==
    \E i \in Seeds : \E k \in DOMAIN q[i] : q[i][k].depth = MaxDepth

(***************************************************************************)
(* C7: within one site crawl no two fetched URLs are equal after           *)
(* normalization (fragment identifier and trailing slashes removed).       *)
(***************************************************************************)
Normalize(u) == [u EXCEPT !.frag = FALSE, !.slash = FALSE]

C7_NoRevisit ==
    \A i \in Seeds : \A j, k \in DOMAIN fetched[i] :
        j # k => Normalize(fetched[i][j].url) # Normalize(fetched[i][k].url)

(***************************************************************************)
(* C8: every URL a site crawler enqueues or fetches, other than the seed,  *)
(* has the seed's domain (host lower-cased, leading "www." removed).       *)
(***************************************************************************)
HostDomain(u) == [sub |-> u.sub, name |-> u.name]

C8_SameDomain ==
    \A i \in Seeds :
        /\ \A k \in DOMAIN enq[i] :
                k > 1 => HostDomain(enq[i][k].url) = HostDomain(sites[i])
        /\ \A k \in DOMAIN fetched[i] :
                k > 1 => HostDomain(fetched[i][k].url) = HostDomain(sites[i])

\* a page of the site was fetched whose host is written unlike the seed's
C8_Witness ==
    \E i \in Seeds : \E k \in DOMAIN fetched[i] :
        k > 1 /\ fetched[i][k].url.www # sites[i].www

(***************************************************************************)
(* C9: within one site, tasks are fetched in exactly the order in which    *)
(* they were enqueued, so the depths of successively fetched pages never   *)
(* decrease.                                                               *)
(***************************************************************************)
C9_Fifo ==
    \A i \in Seeds :
        /\ fetched[i] \o q[i] = enq[i]
        /\ \A j, k \in DOMAIN fetched[i] :
                j < k => fetched[i][j].depth <= fetched[i][k].depth

\* a page of depth 1 is fetched while a task of depth 2, enqueued later than
\* it, waits
C9_Witness ==
    \E i \in Seeds :
        /\ pc[i] \in {"fetch", "goto"}
        /\ cur[i].depth = 1
        /\ q[i] # <<>> /\ q[i][1].depth = 2

(***************************************************************************)
(* C10: on a page with at least one mailto: link, extract_emails returns   *)
(* exactly the mailto addresses, without alias or domain filtering, and    *)
(* no plain-text or obfuscated address of the page that is not one of them.*)
(***************************************************************************)
MailtoAddrs == { t.addr : t \in { x \in arg_html.toks : x.kind = "mailto" } }

C10_MailtoOnly ==
    (IsHunt /\ ret_emails # <<>> /\ \E t \in arg_html.toks : t.kind = "mailto") =>
        /\ \A t \in arg_html.toks : t.kind = "mailto" => t.addr \in ret_emails[1]
        /\ \A t \in arg_html.toks :
                (t.kind # "mailto" /\ t.addr \notin MailtoAddrs) =>
                    t.addr \notin ret_emails[1]
        /\ ret_emails[1] \subseteq MailtoAddrs

\* a mailto address that is no role alias and not of the site is returned, and
\* a role address of the site, written in plain text on the same page, is not
C10_Witness ==
    /\ IsHunt /\ ret_emails # <<>>
    /\ Addr("jane", TRUE, "", 0) \in ret_emails[1]
    /\ TextTok(Addr("ceo", FALSE, "", 1)) \in arg_html.toks
    /\ Addr("ceo", FALSE, "", 1) \notin ret_emails[1]
    /\ arg_host = HostStr("", 1, FALSE)

(***************************************************************************)
(* C11: on a page without mailto: link, extract_emails returns only        *)
(* addresses whose lower-cased local-part is in COMMON_ALIASES and that    *)
(* are on the supplied site domain (that domain or a subdomain of it); an  *)
(* address on another domain is never returned.                            *)
(***************************************************************************)
\* the address is at the site domain or at a subdomain of it
OnSiteDomain(e, host) ==
    /\ e.name = host.name
    /\ host.sub # "" => e.sub = host.sub

C11_AliasAndDomainOnly ==
    (IsHunt /\ ret_emails # <<>> /\ MailtoAddrs = {}) =>
        \A e \in ret_emails[1] :
            /\ Lower(e).local \in COMMON_ALIASES
            /\ OnSiteDomain(e, arg_host)

(***************************************************************************)
(* C12: every address in a site's email set and in the batch rows is       *)
(* lower-case, so that two occurrences of an address that differ only in   *)
(* letter case give one (site, email) pair.                                *)
(***************************************************************************)
C12_LowerCase ==
    /\ \A i \in Seeds : \A e \in emails[i] : ~e.caps
    /\ \A k \in DOMAIN rows : ~rows[k][2].caps

(***************************************************************************)
(* C13: on a page without mailto: link, crawled for 1.test, the text       *)
(* "info (at) 1 [dot] test" makes extract_emails return info@1.test, and   *)
(* the text "jane (at) 1 [dot] test" contributes no address.               *)
(***************************************************************************)
C13_Obfuscation ==
    (/\ IsHunt /\ ret_emails # <<>> /\ MailtoAddrs = {}
     /\ arg_host = HostStr("", 1, FALSE)) =>
        /\ Tok("text", "(at)", "[dot]", Addr("info", FALSE, "", 1)) \in arg_html.toks
                => Addr("info", FALSE, "", 1) \in ret_emails[1]
        /\ arg_html.toks = { Tok("text", "(at)", "[dot]", Addr("jane", FALSE, "", 1)) }
                => ret_emails[1] = {}

(***************************************************************************)
(* C14: when the time-out of one site expires, only that site's crawler is *)
(* cancelled: in that step every other site keeps its position, frontier,  *)
(* visited set, page count and email set, and no crawler is ever cut short *)
(* because of a time-out (only the raise of C3 does that).                 *)
(***************************************************************************)
TimeoutStep ==
    \A i \in Seeds :
        (pc[i] # "timedout" /\ pc'[i] = "timedout") =>
            \A j \in Seeds \ {i} :
                /\ pc'[j] = pc[j] /\ q'[j] = q[j] /\ seen'[j] = seen[j]
                /\ pages'[j] = pages[j] /\ emails'[j] = emails[j]

CutShortOnlyByRaise ==
    (\E j \in Seeds : pc[j] = "cancelled") => \E i \in Seeds : pc[i] = "raised"

C14_TimeoutIsolated == [][TimeoutStep]_vars /\ []CutShortOnlyByRaise

\* one site has timed out while another is in the middle of its crawl, with
\* addresses found and pages discovered
C14_Witness ==
    \E i, j \in Seeds :
        /\ i # j /\ pc[i] = "timedout"
        /\ pc[j] \in {"fetch", "goto"}
        /\ emails[j] # {} /\ Cardinality(seen[j]) > 1

(***************************************************************************)
(* C15: a page-level fetch failure never leaves the site crawler as an     *)
(* exception: the failed page contributes no emails and no links and the   *)
(* crawl goes on with the next queued task, no other site and not the      *)
(* batch being touched; a site whose seed fetch failed has an empty queue  *)
(* and email set and ends by returning (unless a sibling's raise, C3,      *)
(* cancels it first), with one empty-email row in hunt_emails.             *)
(***************************************************************************)
\* the request for the page in hand of seed i is answered in this step
Answered(i) == resp[i] = None /\ resp'[i] # None

FailedFetchStep ==
    \A i \in Seeds :
        (Answered(i) /\ resp'[i].answer.failed) =>
            /\ pc'[i] = "loop"
            /\ emails'[i] = emails[i] /\ q'[i] = q[i] /\ seen'[i] = seen[i]
            /\ mainpc' = mainpc
            /\ \A j \in Seeds \ {i} : pc'[j] = pc[j]

\* the crawler of seed i is back in its loop after the fetch of the seed failed
SeedFailed(i) ==
    /\ pc[i] = "loop" /\ Len(fetched[i]) = 1
    /\ resp[i] # None /\ resp[i].answer.failed

SeedFailedEmpty ==
    \A i \in Seeds : SeedFailed(i) => q[i] = <<>> /\ emails[i] = {}

SeedFailedStep ==
    \A i \in Seeds :
        (SeedFailed(i) /\ pc'[i] # pc[i] /\ pc'[i] # "cancelled") =>
            /\ pc'[i] \in {"returned", "close"}
            /\ IsHunt => rows' = Append(rows, <<sites[i], NoEmail>>)

C15_FetchFailureAbsorbed ==
    [][FailedFetchStep]_vars /\ []SeedFailedEmpty /\ [][SeedFailedStep]_vars

\* in a batch, the seed fetch of one site has failed while another site is
\* being crawled
C15_Witness ==
    \E i, j \in Seeds : i # j /\ SeedFailed(i) /\ pc[j] \in Holding

(***************************************************************************)
(* C16: during a site crawl, a page whose fetch failed with a transient    *)
(* error is treated as a failure only after RETRIES attempts.              *)
(***************************************************************************)
C16_Retried ==
    \A i \in Seeds :
        (resp[i] # None /\ resp[i].answer.failed) => resp[i].attempts = RETRIES

(***************************************************************************)
(* C17: a page whose fetch is answered with a 4xx status is discarded: it  *)
(* is requested once, and its body adds no address to the site's email set *)
(* and no task to the frontier.                                            *)
(***************************************************************************)
ClientErrorStep ==
    \A i \in Seeds :
        (Answered(i) /\ resp'[i].answer.status = NotFound.status) =>
            /\ resp'[i].attempts = 1
            /\ emails'[i] = emails[i]
            /\ pc'[i] = "loop" => enq'[i] = enq[i]

C17_ClientErrorDiscarded == [][ClientErrorStep]_vars

(***************************************************************************)
(* C18: a page whose body is over SKIP_PAGE_BYTES is discarded without any *)
(* parse: it adds no address to the site's email set and no task to the    *)
(* frontier, in both crawlers, with or without a declared content-length.  *)
(***************************************************************************)
OversizeStep ==
    \A i \in Seeds :
        (Answered(i) /\ resp'[i].answer.big) =>
            /\ emails'[i] = emails[i]
            /\ pc'[i] = "loop" => enq'[i] = enq[i]

C18_OversizeDiscarded == [][OversizeStep]_vars

(***************************************************************************)
(* C19: when a site crawler has ended, for whatever reason, the browser    *)
(* context it opened is closed; after the batch no context is open.        *)
(***************************************************************************)
C19_NoLeak ==
    /\ \A i \in Seeds : pc[i] \in Terminal => ctx[i] # "open"
    /\ mainpc # "gather" => \A i \in Seeds : ctx[i] # "open"

(***************************************************************************)
(* C20: once the batch is over, every seed that ended with no emails,      *)
(* whatever its terminal state, has exactly one row, with an empty email   *)
(* field, and a seed with emails has one row per email and no empty one.   *)
(***************************************************************************)
\* the rows of seed i
RowsFor(i) == { k \in DOMAIN rows : rows[k][1] = sites[i] }

C20_ZeroEmailRow ==
    mainpc = "done" =>
        \A i \in Seeds :
            IF RowEmails(i) = {}
            THEN /\ Cardinality(RowsFor(i)) = 1
                 /\ \A k \in RowsFor(i) : rows[k][2] = NoEmail
            ELSE /\ Cardinality(RowsFor(i)) = Cardinality(RowEmails(i))
                 /\ \A k \in RowsFor(i) : rows[k][2] # NoEmail

(***************************************************************************)
(* C21: a slot is released on every way a site crawler can end: the number *)
(* of held slots always equals the number of admitted, unfinished          *)
(* crawlers, no slot is held once the batch is over, and a seed that waits *)
(* for a slot leaves the wait only by being admitted (so that, slots being *)
(* given back, it is eventually admitted).                                 *)
(***************************************************************************)
SlotsAccounted ==
    /\ ConcurrencyLimit - sem = Cardinality(Executing)
    /\ mainpc # "gather" => sem = ConcurrencyLimit

WaitEndsInAdmission ==
    \A i \in Seeds :
        (pc[i] = "pending" /\ pc'[i] # "pending") =>
            pc'[i] \in Holding \cup {"returned"}

OnSeedRegdom(i, text) ==
    { t.addr : t \in { x \in text : /\ x.at = "@" /\ x.dot = "."
                                     /\ regdom(x.addr) = regdom(sites[i]) } }

PageReadStep ==
    \A i \in Seeds :
        (~IsHunt /\ Answered(i)) =>
            emails'[i] = emails[i] \cup OnSeedRegdom(i, resp'[i].toks)

C22_RegdomIdentity == [][PageReadStep]_vars

(***************************************************************************)
(* bulk_mailer: what the claims speak of.                                  *)
(***************************************************************************)
IsMailer == variant = "bulk_mailer"

\* the email fields of the rows that have one
Fields == { csv_in[k][1] : k \in { j \in DOMAIN csv_in : csv_in[j] # <<>> } }

\* a field trimmed and in lower case
Trimmed(c) == [c EXCEPT !.pad = FALSE, !.caps = FALSE]

\* the distinct addresses of the file: the trimmed, lower-cased fields that
\* are not empty and contain "@"
Addresses == { Trimmed(c) : c \in { f \in Fields : f.at } }

\* the first row that carries address e
FirstRow(e) ==
    CHOOSE k \in DOMAIN csv_in :
        /\ csv_in[k] # <<>> /\ Trimmed(csv_in[k][1]) = e
        /\ \A j \in 1..(k - 1) : csv_in[j] = <<>> \/ Trimmed(csv_in[j][1]) # e

\* the addresses a send attempt was made for, in order
PostEvents == SelectSeq(mail_log, LAMBDA ev : ev.kind = "post")
RECURSIVE Concat(_)
Concat(ss) == IF ss = <<>> THEN <<>> ELSE Head(ss).to \o Concat(Tail(ss))
Attempted == Concat(PostEvents)

(***************************************************************************)
(* C23: in one run of bulk_mailer.main no address is sent to twice (a      *)
(* failed one is never retried), the attempts go to the distinct addresses *)
(* of the file (trimmed, lower-cased, empty and "@"-less fields skipped)   *)
(* in order of first appearance without leaving one out, and on normal     *)
(* completion every distinct address had exactly one attempt and           *)
(* sent_total plus the number of recorded failures is the number of loaded *)
(* addresses.                                                              *)
(***************************************************************************)
C23_OneAttemptEach ==
    IsMailer =>
        /\ \A j, k \in DOMAIN Attempted : j # k => Attempted[j] # Attempted[k]
        /\ \A j \in DOMAIN Attempted : Attempted[j] \in Addresses
        /\ \A j, k \in DOMAIN Attempted :
                j < k => FirstRow(Attempted[j]) < FirstRow(Attempted[k])
        /\ \A e \in Addresses : \A k \in DOMAIN Attempted :
                FirstRow(e) < FirstRow(Attempted[k]) =>
                    \E j \in DOMAIN Attempted : Attempted[j] = e
        /\ \A j \in DOMAIN failures : \E k \in DOMAIN Attempted :
                Attempted[k] = failures[j]
        /\ mailpc = "done" =>
                /\ { Attempted[j] : j \in DOMAIN Attempted } = Addresses
                /\ Len(recipients) = Cardinality(Addresses)
                /\ sent_total + Len(failures) = Len(recipients)

\* a run completed on a file in which one address is written twice, in two
\* spellings, next to another one; one send succeeded and one failed
C23_Witness ==
    /\ IsMailer /\ mailpc = "done"
    /\ \E j, k \in DOMAIN csv_in :
            /\ j < k /\ csv_in[j] # <<>> /\ csv_in[k] # <<>>
            /\ csv_in[j] # csv_in[k] /\ csv_in[j][1].at
            /\ Trimmed(csv_in[j][1]) = Trimmed(csv_in[k][1])
    /\ sent_total = 1 /\ Len(failures) = 1

(***************************************************************************)
(* C24: bulk_mailer.main paces its sends.  Between two consecutive batches *)
(* it sleeps once, for WINDOW_PAUSE when the number of the batch just sent *)
(* is a multiple of MAX_PER_WINDOW and for SLEEP_BETWEEN otherwise, so at  *)
(* most MAX_PER_WINDOW batches are sent without a cooling-off pause        *)
(* between them; after the last batch it does not sleep.                   *)
(***************************************************************************)
\* the batches posted among the events j..k of the history
PostsIn(j, k) == Cardinality({ n \in j..k : mail_log[n].kind = "post" })

IsPause(ev) == ev.kind = "sleep" /\ ev.secs = WINDOW_PAUSE

C24_Paced ==
    IsMailer =>
        /\ \A k \in DOMAIN mail_log :
                (mail_log[k].kind = "post" /\ k < Len(mail_log)) =>
                    /\ mail_log[k + 1].kind = "sleep"
                    /\ mail_log[k + 1].secs =
                          IF PostsIn(1, k) % MAX_PER_WINDOW = 0
                          THEN WINDOW_PAUSE ELSE SLEEP_BETWEEN
        /\ \A k \in DOMAIN mail_log :
                mail_log[k].kind = "sleep" =>
                    /\ k > 1 /\ mail_log[k - 1].kind = "post"
                    /\ k = Len(mail_log) => mailpc \in {"sleep", "post"}
        /\ \A j, k \in DOMAIN mail_log :
                (j <= k /\ \A n \in j..k : ~IsPause(mail_log[n])) =>
                    PostsIn(j, k) <= MAX_PER_WINDOW
        /\ mailpc = "done" =>
                /\ PostsIn(1, Len(mail_log)) = Len(chunk(recipients, BATCH_SIZE))
                /\ mail_log # <<>> => mail_log[Len(mail_log)].kind = "post"

\* a completed run with two cooling-off pauses and a short sleep
C24_Witness ==
    /\ IsMailer /\ mailpc = "done"
    /\ \E j, k \in DOMAIN mail_log :
            j < k /\ IsPause(mail_log[j]) /\ IsPause(mail_log[k])
    /\ \E k \in DOMAIN mail_log :
            mail_log[k].kind = "sleep" /\ mail_log[k].secs = SLEEP_BETWEEN

====
